---- MODULE Spec2Model ----
(***************************************************************************)
(* Simple Pin: the pin store (PinManager), the JSON export/import of the   *)
(* pinned paths, and the File Explorer sort patch (ExplorerPatcher).       *)
(*                                                                         *)
(* Source: src/src/explorer-patcher.ts (ExplorerPatcher, PinManager and    *)
(* the plugin's main class), src/src/settings.ts (settings tab) and        *)
(* src/unnamed/part_000 (README and the type declarations).                *)
(***************************************************************************)
EXTENDS Integers, Sequences, FiniteSets, TLC

(***************************************************************************)
(* The universe of the model.                                              *)
(***************************************************************************)

\* Vault paths of files (TFile) and of folders (TFolder).
Files == {"a.md", "b.md", "c.md"}

Folders == {"sub"}

Paths == Files \cup Folders

\* The folder items of the explorer view whose sort() the host calls.
FolderItems == {"/", "sub"}

\* A child item that has no `file` (child?.file is undefined).
Ghost == "ghost"

\* The child items the host keeps under each folder item, keyed by path
\* as in view.fileItems.
FolderChildren(f) ==
    IF f = "/" THEN {"a.md", "b.md", "sub"} ELSE {"c.md", Ghost}

\* The order the host built each folder's children in before the plugin loads.
InitialChildren(f) ==
    IF f = "/" THEN <<"sub", "a.md", "b.md">> ELSE <<"c.md", Ghost>>

\* The keys of view.fileItems: the root folder and every path of the vault.
Items == Paths \cup {"/"}

\* The items the view holds before the folder "sub" appears in it.
BaseItems == {"/", "a.md", "b.md"}

\* In-flight saveData() calls the model follows at once.
MaxPending == 2

\* Length of settings.pinnedPaths as loaded from the data file.
MaxLoaded == 2

(***************************************************************************)
(* JavaScript's Set<string>: insertion-ordered, no duplicates.  A set is   *)
(* modelled as the sequence of its members in insertion order, which is    *)
(* the order [...set] spreads them in.                                     *)
(***************************************************************************)

Range(s) == {s[i] : i \in 1..Len(s)}

SetHas(s, x) == \E i \in 1..Len(s) : s[i] = x

SetAdd(s, x) == IF SetHas(s, x) THEN s ELSE Append(s, x)

SetDelete(s, x) == SelectSeq(s, LAMBDA y : y # x)

\* new Set(iterable): add the elements one after another.
RECURSIVE SetFrom(_)
SetFrom(arr) ==
    IF Len(arr) = 0 THEN <<>>
    ELSE SetAdd(SetFrom(SubSeq(arr, 1, Len(arr) - 1)), arr[Len(arr)])

NoDuplicates(s) == \A i, j \in 1..Len(s) : s[i] = s[j] => i = j

\* All sequences over S of length at most n.
SeqsUpTo(S, n) == UNION {[1..k -> S] : k \in 0..n}

\* All orders of the finite set S.
Perms(S) == {s \in [1..Cardinality(S) -> S] : Range(s) = S}

(***************************************************************************)
(* JSON text and JSON values.  A text is the sequence of its lexemes: a    *)
(* string literal, a number, a punctuation mark, a run of white space or a *)
(* bare word (null, true, false, or anything that is not JSON).            *)
(***************************************************************************)

Str(s) == [t |-> "string", v |-> s]

Num(n) == [t |-> "number", v |-> n]

Pun(c) == [t |-> "punct", v |-> c]

Ws(w) == [t |-> "ws", v |-> w]

Word(w) == [t |-> "word", v |-> w]

JString(s) == [k |-> "string", s |-> s, items |-> <<>>]

JNumber(n) == [k |-> "number", s |-> n, items |-> <<>>]

JLiteral(w) == [k |-> w, s |-> "", items |-> <<>>]

JObject == [k |-> "object", s |-> "", items |-> <<>>]

JArray(items) == [k |-> "array", s |-> "", items |-> items]

ParseFail == [ok |-> FALSE, val |-> JLiteral("null"), rest |-> <<>>]

ParseOk(val, rest) == [ok |-> TRUE, val |-> val, rest |-> rest]

RECURSIVE SkipWs(_)
SkipWs(toks) ==
    IF Len(toks) > 0 /\ toks[1].t = "ws" THEN SkipWs(Tail(toks)) ELSE toks

StartsWith(toks, c) == Len(toks) > 0 /\ toks[1] = Pun(c)

RECURSIVE ParseValue(_), ParseElements(_, _), ParseMembers(_)

\* value := string | number | null | true | false | array | object
ParseValue(toks) ==
    IF Len(toks) = 0 THEN ParseFail
    ELSE LET h == toks[1]
             rest == Tail(toks)
         IN  CASE h.t = "string" -> ParseOk(JString(h.v), rest)
               [] h.t = "number" -> ParseOk(JNumber(h.v), rest)
               [] h.t = "word" ->
                    IF h.v \in {"null", "true", "false"}
                    THEN ParseOk(JLiteral(h.v), rest)
                    ELSE ParseFail
               [] h = Pun("[") ->
                    IF StartsWith(SkipWs(rest), "]")
                    THEN ParseOk(JArray(<<>>), Tail(SkipWs(rest)))
                    ELSE ParseElements(rest, <<>>)
               [] h = Pun("{") ->
                    IF StartsWith(SkipWs(rest), "}")
                    THEN ParseOk(JObject, Tail(SkipWs(rest)))
                    ELSE ParseMembers(rest)
               [] OTHER -> ParseFail

\* elements := value ("," value)* "]", white space allowed around each
ParseElements(toks, acc) ==
    LET r == ParseValue(SkipWs(toks))
        after == SkipWs(r.rest)
    IN  IF ~r.ok THEN ParseFail
        ELSE IF StartsWith(after, ",")
             THEN ParseElements(Tail(after), Append(acc, r.val))
        ELSE IF StartsWith(after, "]")
             THEN ParseOk(JArray(Append(acc, r.val)), Tail(after))
        ELSE ParseFail

\* members := string ":" value ("," string ":" value)* "}"
ParseMembers(toks) ==
    LET key == SkipWs(toks)
        colon == IF Len(key) > 0 THEN SkipWs(Tail(key)) ELSE <<>>
        r == IF Len(colon) > 0 THEN ParseValue(SkipWs(Tail(colon))) ELSE ParseFail
        after == SkipWs(r.rest)
    IN  IF Len(key) = 0 \/ key[1].t # "string" THEN ParseFail
        ELSE IF ~StartsWith(colon, ":") THEN ParseFail
        ELSE IF ~r.ok THEN ParseFail
        ELSE IF StartsWith(after, ",") THEN ParseMembers(Tail(after))
        ELSE IF StartsWith(after, "}") THEN ParseOk(JObject, Tail(after))
        ELSE ParseFail

\* JSON.parse(text): the value, or ok = FALSE where it throws SyntaxError.
JSONParse(text) ==
    LET r == ParseValue(SkipWs(text))
    IN  IF r.ok /\ Len(SkipWs(r.rest)) = 0
        THEN [ok |-> TRUE, val |-> r.val]
        ELSE [ok |-> FALSE, val |-> JLiteral("null")]

\* JSON.stringify(arr, null, 2) of an array of strings: "[]" when empty,
\* else one element per line, indented by two spaces.
RECURSIVE StringifyElements(_)
StringifyElements(arr) ==
    IF Len(arr) = 0 THEN <<>>
    ELSE LET front == SubSeq(arr, 1, Len(arr) - 1)
         IN  StringifyElements(front)
                \o (IF Len(front) > 0 THEN <<Pun(",")>> ELSE <<>>)
                \o <<Ws("\n  "), Str(arr[Len(arr)])>>

JSONStringify(arr) ==
    IF Len(arr) = 0 THEN <<Pun("["), Pun("]")>>
    ELSE <<Pun("[")>> \o StringifyElements(arr) \o <<Ws("\n"), Pun("]")>>

\* The text [e1, e2, ...] as a user types it: elements separated by ", ".
RECURSIVE TypedElements(_)
TypedElements(elems) ==
    IF Len(elems) = 0 THEN <<>>
    ELSE LET front == SubSeq(elems, 1, Len(elems) - 1)
         IN  TypedElements(front)
                \o (IF Len(front) > 0 THEN <<Pun(","), Ws(" ")>> ELSE <<>>)
                \o <<elems[Len(elems)]>>

TypedArray(elems) == <<Pun("[")>> \o TypedElements(elems) \o <<Pun("]")>>

\* Texts pasted into the import field, besides the store's own export.
ImportTexts ==
    { TypedArray(<<Str("a.md"), Str("a.md"), Str("b.md")>>),
      TypedArray(<<Str("b.md"), Str("sub")>>),
      TypedArray(<<>>),
      TypedArray(<<Str("b.md"), Num("1")>>),
      TypedArray(<<Num("1"), Word("null")>>),
      <<Pun("["), Pun("["), Str("a.md"), Pun("]"), Pun("]")>>,
      <<Pun("["), Str("a.md"), Pun(","), Pun("]")>>,
      <<Pun("["), Str("a.md")>>,
      <<Pun("{"), Word("not"), Ws(" "), Word("an"), Ws(" "), Word("array"), Pun("}")>>,
      <<Pun("{"), Pun("}")>>,
      <<Pun("{"), Str("a.md"), Pun(":"), Num("1"), Pun("}")>>,
      <<Str("a.md")>>,
      <<Word("null")>> }

(***************************************************************************)
(* State.                                                                  *)
(***************************************************************************)

VARIABLES
    pinned,       \* PinManager.pinned: the Set<string>, in insertion order
    settings,     \* plugin.settings: [showPinIndicator, pinnedPaths]
    saved,        \* the settings as handed to the most recent saveData()
    pending,      \* calls awaiting their saveData(), in the order issued
    children,     \* item.children of every folder item
    itemSort,     \* item.sort of every folder item: its number of wrappers
    origSortFns,  \* ExplorerPatcher.origSortFns: the function saved per item
    inView,       \* the keys of view.fileItems
    indicators,   \* the pin markers inside every item's title element
    shown,        \* the paths the last indicator pass found pinned and shown (history)
    sortRequested,\* view.requestSort() called and not yet served by the host
    patched,      \* ExplorerPatcher.patched
    last          \* the step taken last and what it saw (history)

vars == <<pinned, settings, saved, pending, children, itemSort, origSortFns,
          inView, indicators, shown, sortRequested, patched, last>>

storeVars == <<pinned, settings, saved, pending>>

viewVars == <<inView, indicators, shown, sortRequested, patched>>

treeVars == <<children, itemSort, origSortFns, viewVars>>

\* No function saved for the item in origSortFns.
NoFn == -1

\* The history record of a step; a step sets the fields it is about.
Step(op) ==
    [ op |-> op, path |-> "", path2 |-> "",
      pre |-> pinned, prePaths |-> settings.pinnedPaths,
      preSettings |-> settings,
      writes |-> 0, threw |-> FALSE, bool |-> FALSE, count |-> 0,
      clean |-> TRUE, call |-> "", raw |-> <<>>,
      folder |-> "", native |-> <<>>, fault |-> "none", wrapped |-> FALSE,
      rewritten |-> FALSE, origCalls |-> 0, propagated |-> FALSE,
      elements |-> <<>>, kids |-> <<>>, shape |-> "ok", sorts |-> itemSort,
      marks |-> indicators ]

\* A call that awaits saveData(): what it returns once that resolves.
Call(op, path, bool, count) ==
    [op |-> op, path |-> path, bool |-> bool, count |-> count, clean |-> TRUE]

(***************************************************************************)
(* SimplePinPlugin.loadSettings and the PinManager constructor.            *)
(***************************************************************************)

\* DEFAULT_SETTINGS
DefaultSettings == [showPinIndicator |-> TRUE, pinnedPaths |-> <<>>]

\* Object.assign({}, DEFAULT_SETTINGS, data): data is null or a stored record.
loadSettings(data) ==
    IF data.present
    THEN [showPinIndicator |-> data.showPinIndicator, pinnedPaths |-> data.pinnedPaths]
    ELSE DefaultSettings

\* What loadData() may return: nothing, or a record stored earlier (whose
\* pinnedPaths a user or a sync tool may have edited, repeats included).
StoredData ==
    {[present |-> FALSE, showPinIndicator |-> TRUE, pinnedPaths |-> <<>>]}
    \cup [present : {TRUE}, showPinIndicator : {TRUE},
          pinnedPaths : SeqsUpTo(Paths, MaxLoaded)]

\* new PinManager(plugin): this.pinned = new Set(plugin.settings.pinnedPaths)
PinManagerNew(s) == SetFrom(s.pinnedPaths)

(***************************************************************************)
(* PinManager: queries and the set each mutation leaves.                   *)
(***************************************************************************)

isPinned(path) == SetHas(pinned, path)

getPinnedPaths == pinned

\* persist without the refresh of settings.pinnedPaths.
persistStale(s, p) == s

\* PinManager.persist, first statement: settings.pinnedPaths = [...this.pinned]
persist(s, p) == [s EXCEPT !.pinnedPaths = p]

pinSet(p, path) == SetAdd(p, path)

unpinSet(p, path) == SetDelete(p, path)

\* handleRename that removes the old key and forgets the new one.
handleRenameSetDrop(p, oldPath, newPath) == SetDelete(p, oldPath)

handleRenameSet(p, oldPath, newPath) == SetAdd(SetDelete(p, oldPath), newPath)

\* handleDelete leaving the path in the set.
handleDeleteSetKeep(p, path) == p

handleDeleteSet(p, path) == SetDelete(p, path)

\* The import loop counting every string, whether or not it was present.
RECURSIVE importLoopCountAll(_, _)
importLoopCountAll(p, arr) ==
    IF Len(arr) = 0 THEN [set |-> p, added |-> 0]
    ELSE LET r == importLoopCountAll(p, SubSeq(arr, 1, Len(arr) - 1))
             item == arr[Len(arr)]
         IN  IF item.k = "string"
             THEN [set |-> SetAdd(r.set, item.s), added |-> r.added + 1]
             ELSE r

\* The loop of importJSON over the parsed array: [set, added].
RECURSIVE importLoop(_, _)
importLoop(p, arr) ==
    IF Len(arr) = 0 THEN [set |-> p, added |-> 0]
    ELSE LET r == importLoop(p, SubSeq(arr, 1, Len(arr) - 1))
             item == arr[Len(arr)]
         IN  IF item.k = "string" /\ ~SetHas(r.set, item.s)
             THEN [set |-> SetAdd(r.set, item.s), added |-> r.added + 1]
             ELSE r

exportJSON(p) == JSONStringify(p)

\* History: a pending call whose path changed membership since it was issued.
Disturb(pend, before, after) ==
    [i \in DOMAIN pend |->
        IF SetHas(before, pend[i].path) # SetHas(after, pend[i].path)
        THEN [pend[i] EXCEPT !.clean = FALSE]
        ELSE pend[i]]

\* The mutation's tail: this.pinned is newSet, then `await this.persist()`:
\* settings.pinnedPaths is refreshed, saveData(settings) is called, and the
\* call stays pending until the host resolves it.
Persisting(newSet, call, step) ==
    /\ Len(pending) < MaxPending
    /\ pinned' = newSet
    /\ settings' = persist(settings, newSet)
    /\ saved' = settings'
    /\ pending' = Append(Disturb(pending, pinned, newSet), call)
    /\ last' = [step EXCEPT !.writes = 1]
    /\ UNCHANGED treeVars

\* An early return: nothing changes and nothing is written.
Returning(step) ==
    /\ last' = step
    /\ UNCHANGED <<storeVars, treeVars>>

pin(path) ==
    LET step == [Step("pin") EXCEPT !.path = path]
    IN  IF SetHas(pinned, path)
        THEN Returning(step)
        ELSE Persisting(pinSet(pinned, path), Call("pin", path, FALSE, 0), step)

unpin(path) ==
    LET step == [Step("unpin") EXCEPT !.path = path]
    IN  IF ~SetHas(pinned, path)
        THEN Returning(step)
        ELSE Persisting(unpinSet(pinned, path), Call("unpin", path, FALSE, 0), step)

\* toggle returning the membership it found instead of the one it left.
toggleResultStale(p, path) == SetHas(p, path)

\* toggle awaits unpin or pin and then returns false or true.
toggleResult(p, path) == ~SetHas(p, path)

toggle(path) ==
    LET ret == toggleResult(pinned, path)
        step == [Step("toggle") EXCEPT !.path = path, !.bool = ret]
    IN  IF SetHas(pinned, path)
        THEN Persisting(unpinSet(pinned, path), Call("toggle", path, ret, 0), step)
        ELSE Persisting(pinSet(pinned, path), Call("toggle", path, ret, 0), step)

handleRename(oldPath, newPath) ==
    LET step == [Step("handleRename") EXCEPT !.path = oldPath, !.path2 = newPath]
    IN  IF ~SetHas(pinned, oldPath)
        THEN Returning(step)
        ELSE Persisting(handleRenameSet(pinned, oldPath, newPath),
                        Call("handleRename", oldPath, FALSE, 0), step)

\* handleDelete without its membership guard.
handleDeleteAlways(path) ==
    Persisting(handleDeleteSet(pinned, path),
               Call("handleDelete", path, FALSE, 0),
               [Step("handleDelete") EXCEPT !.path = path])

handleDelete(path) ==
    LET step == [Step("handleDelete") EXCEPT !.path = path]
    IN  IF ~SetHas(pinned, path)
        THEN Returning(step)
        ELSE Persisting(handleDeleteSet(pinned, path),
                        Call("handleDelete", path, FALSE, 0), step)

clearAll ==
    Persisting(<<>>, Call("clearAll", "", FALSE, 0), Step("clearAll"))

\* importJSON without the Array.isArray check: a non-array imports nothing.
importJSONUnchecked(json) ==
    LET parsed == JSONParse(json)
        step == [Step("importJSON") EXCEPT !.raw = json]
    IN  IF ~parsed.ok
        THEN Returning([step EXCEPT !.threw = TRUE])
        ELSE LET r == importLoop(pinned, parsed.val.items)
             IN  Persisting(r.set, Call("importJSON", "", FALSE, r.added),
                            [step EXCEPT !.count = r.added])

\* importJSON persisting in a finally block, also when it throws.
importJSONFinally(json) ==
    LET parsed == JSONParse(json)
        step == [Step("importJSON") EXCEPT !.raw = json]
    IN  IF ~parsed.ok \/ parsed.val.k # "array"
        THEN Persisting(pinned, Call("importJSON", "", FALSE, 0),
                        [step EXCEPT !.threw = TRUE])
        ELSE LET r == importLoop(pinned, parsed.val.items)
             IN  Persisting(r.set, Call("importJSON", "", FALSE, r.added),
                            [step EXCEPT !.count = r.added])

importJSON(json) ==
    LET parsed == JSONParse(json)
        step == [Step("importJSON") EXCEPT !.raw = json]
    IN  IF ~parsed.ok \/ parsed.val.k # "array"
        THEN Returning([step EXCEPT !.threw = TRUE])
        ELSE LET r == importLoop(pinned, parsed.val.items)
             IN  Persisting(r.set, Call("importJSON", "", FALSE, r.added),
                            [step EXCEPT !.count = r.added])

\* The host resolves one saveData(); the call that awaited it returns.
Resolve(i) ==
    /\ i \in DOMAIN pending
    /\ pending' = [j \in 1..(Len(pending) - 1) |->
                      IF j < i THEN pending[j] ELSE pending[j + 1]]
    /\ last' = [Step("resolve") EXCEPT !.call = pending[i].op,
                   !.path = pending[i].path, !.bool = pending[i].bool,
                   !.count = pending[i].count, !.clean = pending[i].clean]
    /\ UNCHANGED <<pinned, settings, saved, treeVars>>

(***************************************************************************)
(* ExplorerPatcher: the per-folder sort patch.                             *)
(***************************************************************************)

\* child?.file is defined.
HasFile(child) == child # Ghost

\* The loop of the wrapped sort: child?.file && pinnedSet.has(child.file.path)
IsPinnedChild(child, pinnedSet) == HasFile(child) /\ SetHas(pinnedSet, child)

RECURSIVE Reverse(_)
Reverse(seq) ==
    IF Len(seq) = 0 THEN <<>> ELSE Append(Reverse(Tail(seq)), seq[1])

\* The loop collecting the pinned children with unshift instead of push.
PinnedChildrenReversed(ch, pinnedSet) ==
    Reverse(SelectSeq(ch, LAMBDA c : IsPinnedChild(c, pinnedSet)))

PinnedChildren(ch, pinnedSet) ==
    SelectSeq(ch, LAMBDA c : IsPinnedChild(c, pinnedSet))

UnpinnedChildren(ch, pinnedSet) ==
    SelectSeq(ch, LAMBDA c : ~IsPinnedChild(c, pinnedSet))

\* A try block that lets what is thrown inside it through.
TryWithoutCatch(thrown) == thrown

\* try { ... } catch (e) { console.warn(...) }: whether what the block threw
\* leaves it.
TryCatch(thrown) == FALSE

\* Where the partition step may throw when the host's children are not the
\* array the type declarations promise: iterating them, truncating them
\* (children.length = 0), or pushing the new order after the truncation.
Faults == {"none", "iterate", "truncate", "push"}

\* The catch block leaving the children as the failure left them.
CatchWithoutFallback(atCatch, native) == atCatch

\* The catch block: origSort() again, by which the host rebuilds the
\* folder's children in its native order.
CatchFallback(atCatch, native) == native

\* The unpinned children put first.
ReorderUnpinnedFirst(pinnedL, unpinnedL) == unpinnedL \o pinnedL

\* children.length = 0; children.push(...pinned, ...unpinned)
Reorder(pinnedL, unpinnedL) == pinnedL \o unpinnedL

\* The wrapped sort without its early returns: the children are always
\* emptied and pushed back.
WrappedSortNoEarlyReturn(native, pinnedSet, fault) ==
    [children |-> Reorder(PinnedChildren(native, pinnedSet),
                          UnpinnedChildren(native, pinnedSet)),
     caught |-> FALSE, rewritten |-> TRUE, origCalls |-> 1,
     propagated |-> FALSE]

\* A wrapper that partitions the children without calling origSort().
WrappedSortSkipsNative(native, pinnedSet, fault) ==
    [children |-> Reorder(PinnedChildren(native, pinnedSet),
                          UnpinnedChildren(native, pinnedSet)),
     caught |-> FALSE, rewritten |-> TRUE, origCalls |-> 0,
     propagated |-> FALSE]

\* The wrapped sort, after origSort() left the children in `native` order:
\* the children it leaves, and whether it went through its catch block.
WrappedSort(native, pinnedSet, fault) ==
    LET pinnedL == PinnedChildren(native, pinnedSet)
        unpinnedL == UnpinnedChildren(native, pinnedSet)
        Return(ch, rewritten) ==
            [children |-> ch, caught |-> FALSE, rewritten |-> rewritten,
             origCalls |-> 1, propagated |-> FALSE]
        Catch(atCatch) ==
            [children |-> CatchFallback(atCatch, native), caught |-> TRUE,
             rewritten |-> atCatch # native, origCalls |-> 2,
             propagated |-> TryCatch(TRUE)]
    IN  IF Len(native) = 0 THEN Return(native, FALSE)
        ELSE IF Len(pinnedSet) = 0 THEN Return(native, FALSE)
        ELSE IF fault = "iterate" THEN Catch(native)
        ELSE IF Len(pinnedL) = 0 THEN Return(native, FALSE)
        ELSE IF fault = "truncate" THEN Catch(native)
        ELSE IF fault = "push" THEN Catch(<<>>)
        ELSE Return(Reorder(pinnedL, unpinnedL), TRUE)

\* item.sort() of an item that carries `depth` wrappers around the host's
\* sort, which orders the children as `native`.
RECURSIVE RunSort(_, _, _, _)
RunSort(depth, native, pinnedSet, fault) ==
    IF depth = 0
    THEN [children |-> native, caught |-> FALSE, rewritten |-> FALSE,
          origCalls |-> 0, propagated |-> FALSE]
    ELSE WrappedSort(RunSort(depth - 1, native, pinnedSet, "none").children,
                     pinnedSet, fault)

\* What the host leaves for a probe of the patcher to find.  "ok" is the
\* shape the type declarations describe; the others are structural drift:
\* no explorer leaf, a leaf without view, a view without fileItems, items
\* without sort or without file, a view without requestSort, items without
\* any title element, a title element that is no element (its querySelector
\* is not callable), and a workspace whose getLeavesOfType throws.
Shapes ==
    {"ok", "noLeaf", "noView", "noFileItems", "noItemSort", "noItemFile",
     "noRequestSort", "noTitleEl", "badTitleEl", "throws"}

\* The fields a pass of the patcher works on, as the pass finds them.
Current ==
    [itemSort |-> itemSort, origSortFns |-> origSortFns, patched |-> patched,
     sortRequested |-> sortRequested, indicators |-> indicators,
     shown |-> shown, thrown |-> FALSE]

\* The loop of patchFolderSorts wrapping an item whether or not a function
\* is saved for it.
WrapItemAgain(r, f, shape) ==
    f \in inView /\ shape \notin {"noItemSort", "noItemFile"}

\* The loop of patchFolderSorts: folder item f is wrapped when it has a file
\* with children and a sort function and origSortFns holds nothing for it.
WrapItem(r, f, shape) ==
    /\ f \in inView
    /\ shape \notin {"noItemSort", "noItemFile"}
    /\ r.origSortFns[f] = NoFn

\* patchFolderSorts(view)
patchFolderSortsRun(r, shape) ==
    IF shape = "noFileItems" THEN r
    ELSE [r EXCEPT
            !.origSortFns = [f \in FolderItems |->
                                IF WrapItem(r, f, shape)
                                THEN r.itemSort[f] ELSE r.origSortFns[f]],
            !.itemSort = [f \in FolderItems |->
                             IF WrapItem(r, f, shape)
                             THEN r.itemSort[f] + 1 ELSE r.itemSort[f]],
            !.patched = TRUE]

\* requestSort(view)
requestSort(r, shape) ==
    IF shape = "noRequestSort" THEN r ELSE [r EXCEPT !.sortRequested = TRUE]

\* existing = titleEl.querySelector(...); if (existing) existing.remove()
RemoveExisting(n) == IF n > 0 THEN n - 1 ELSE 0

\* An indicator pass that prepends a marker without removing the existing one.
MarkItemKeeping(n, show, isPinnedPath) ==
    IF show /\ isPinnedPath THEN n + 1 ELSE n

\* The body of the loop of updateIndicators for one item with n markers.
MarkItem(n, show, isPinnedPath) ==
    IF show /\ isPinnedPath THEN RemoveExisting(n) + 1 ELSE RemoveExisting(n)

\* updateIndicators(view)
updateIndicators(r, shape) ==
    IF shape \in {"noFileItems", "noTitleEl"} THEN r
    ELSE IF shape = "badTitleEl" THEN [r EXCEPT !.thrown = TRUE]
    ELSE [r EXCEPT
            !.indicators = [p \in Paths |->
                               IF p \in inView
                               THEN MarkItem(r.indicators[p],
                                             settings.showPinIndicator,
                                             SetHas(getPinnedPaths, p))
                               ELSE r.indicators[p]],
            !.shown = {p \in Paths \cap inView :
                          settings.showPinIndicator /\ SetHas(getPinnedPaths, p)}]

\* removeAllIndicators(view)
removeAllIndicators(r, shape) ==
    IF shape \in {"noFileItems", "noTitleEl"} THEN r
    ELSE IF shape = "badTitleEl" THEN [r EXCEPT !.thrown = TRUE]
    ELSE [r EXCEPT
            !.indicators = [p \in Paths |->
                               IF p \in inView
                               THEN RemoveExisting(r.indicators[p])
                               ELSE r.indicators[p]],
            !.shown = {}]

\* unpatch leaving the wrapped sort functions in place.
restoreSortsNot(r, shape) == r

\* The loop of unpatch: every item of view.fileItems that has a sort and a
\* saved function gets the saved function back and leaves origSortFns.
restoreSorts(r, shape) ==
    IF shape \in {"noFileItems", "noItemSort"} THEN r
    ELSE [r EXCEPT
            !.itemSort = [f \in FolderItems |->
                             IF f \in inView /\ r.origSortFns[f] # NoFn
                             THEN r.origSortFns[f] ELSE r.itemSort[f]],
            !.origSortFns = [f \in FolderItems |->
                                IF f \in inView /\ r.origSortFns[f] # NoFn
                                THEN NoFn ELSE r.origSortFns[f]]]

\* The probes every public method starts with: getExplorerLeaf() and
\* explorerLeaf.view; `body` is what follows them.
Probed(shape, body) ==
    IF shape = "throws" THEN [Current EXCEPT !.thrown = TRUE]
    ELSE IF shape \in {"noLeaf", "noView"} THEN Current
    ELSE body

patchAndRefreshRun(shape) ==
    LET a == patchFolderSortsRun(Current, shape)
        b == requestSort(a, shape)
    IN  Probed(shape, updateIndicators(b, shape))

refreshRun(shape) ==
    Probed(shape, updateIndicators(requestSort(Current, shape), shape))

unpatchRun(shape) ==
    LET a == removeAllIndicators(Current, shape)
        b == restoreSorts(a, shape)
        c == [b EXCEPT !.patched = FALSE]
    IN  Probed(shape, IF a.thrown THEN a ELSE requestSort(c, shape))

\* A pass of the patcher takes effect: r is what it left, and what it threw
\* stays inside its try block.
PatcherEffect(r, step) ==
    /\ itemSort' = r.itemSort
    /\ origSortFns' = r.origSortFns
    /\ patched' = r.patched
    /\ sortRequested' = r.sortRequested
    /\ indicators' = r.indicators
    /\ shown' = r.shown
    /\ last' = [step EXCEPT !.threw = r.thrown,
                            !.propagated = TryCatch(r.thrown),
                            !.kids = children]
    /\ UNCHANGED <<children, inView>>

\* patchFolderSorts: every folder item of view.fileItems that has no saved
\* function gets its sort saved and wrapped.
patchFolderSorts ==
    /\ PatcherEffect(patchFolderSortsRun(Current, "ok"), Step("patchFolderSorts"))
    /\ UNCHANGED storeVars

patchAndRefresh(shape) ==
    /\ PatcherEffect(patchAndRefreshRun(shape),
                     [Step("patchAndRefresh") EXCEPT !.shape = shape])
    /\ UNCHANGED storeVars

refresh(shape) ==
    /\ PatcherEffect(refreshRun(shape), [Step("refresh") EXCEPT !.shape = shape])
    /\ UNCHANGED storeVars

unpatch(shape) ==
    /\ PatcherEffect(unpatchRun(shape), [Step("unpatch") EXCEPT !.shape = shape])
    /\ UNCHANGED storeVars

\* The host adds the folder "sub" and its file to the view: new items, with
\* the host's own sort, put under their parents.
HostAddItems ==
    /\ inView = BaseItems
    /\ inView' = Items
    /\ children' = [f \in FolderItems |->
                       IF f = "/" THEN Append(children[f], "sub")
                       ELSE InitialChildren(f)]
    /\ last' = Step("add")
    /\ UNCHANGED <<storeVars, itemSort, origSortFns, indicators, shown,
                   sortRequested, patched>>

\* The children of folder f that the view holds an item for.
ViewChildren(f) == FolderChildren(f) \cap (inView \cup {Ghost})

\* The host sorts folder item f: it calls item.sort(), whose native part
\* orders the folder's children by the sort mode in force and lays their
\* elements out in that order (last.elements: the wrapper moves no element);
\* a requested sort is served by it.
HostSort(f, fault) ==
    /\ f \in inView
    /\ \E native \in Perms(ViewChildren(f)) :
        LET r == RunSort(itemSort[f], native, getPinnedPaths, fault)
        IN  /\ children' = [children EXCEPT ![f] = r.children]
            /\ sortRequested' = FALSE
            /\ last' = [Step("sort") EXCEPT !.folder = f, !.native = native,
                           !.fault = fault, !.wrapped = itemSort[f] > 0,
                           !.threw = r.caught, !.rewritten = r.rewritten,
                           !.origCalls = r.origCalls,
                           !.propagated = r.propagated,
                           !.elements = native]
            /\ UNCHANGED <<storeVars, itemSort, origSortFns, inView,
                           indicators, shown, patched>>

(***************************************************************************)
(* SimplePinPlugin and its settings tab: the callers of the pin store.     *)
(***************************************************************************)

\* getActiveFile() returning null.
NoFile == "none"

\* refreshExplorer(), run by a caller whose call had nothing to await.
Refreshing(step) ==
    /\ PatcherEffect(patchAndRefreshRun("ok"), step)
    /\ UNCHANGED storeVars

\* The file-menu handler and the click on the item it adds: nothing is added
\* for an entry that is no TFile.
FileMenuClick(file) ==
    IF file \notin Files
    THEN Returning([Step("file-menu") EXCEPT !.path = file])
    ELSE toggle(file)

\* The command "Pin current file", checked and then run.
CommandPin(file) ==
    IF file = NoFile \/ isPinned(file)
    THEN Returning([Step("pin-current-file") EXCEPT !.path = file])
    ELSE pin(file)

\* The command "Unpin current file".
CommandUnpin(file) ==
    IF file = NoFile \/ ~isPinned(file)
    THEN Returning([Step("unpin-current-file") EXCEPT !.path = file])
    ELSE unpin(file)

\* The command "Toggle pin current file".
CommandToggle(file) ==
    IF file = NoFile
    THEN Returning([Step("toggle-pin-current-file") EXCEPT !.path = file])
    ELSE toggle(file)

\* vault.on("rename"): handleRename(oldPath, file.path), then refreshExplorer.
OnRename(oldPath, newPath) ==
    IF isPinned(oldPath)
    THEN handleRename(oldPath, newPath)
    ELSE Refreshing([Step("handleRename") EXCEPT !.path = oldPath,
                                                 !.path2 = newPath])

\* vault.on("delete"): handleDelete(file.path), then refreshExplorer.
OnDelete(path) ==
    IF isPinned(path)
    THEN handleDelete(path)
    ELSE Refreshing([Step("handleDelete") EXCEPT !.path = path])

\* The "Clear all" button.
ClearAllClick == clearAll

\* raw.trim() is empty.
Blank(raw) == \A i \in DOMAIN raw : raw[i].t = "ws"

\* The "Import" button: a blank field is refused with a notice; a text that
\* importJSON throws on ends in the catch block, without refreshExplorer.
ImportClick(raw) ==
    IF Blank(raw)
    THEN Returning([Step("import") EXCEPT !.raw = raw])
    ELSE importJSON(raw)

\* The "Show pin indicator" toggle: the setting is changed and saved.
ShowIndicatorChange(value) ==
    /\ Len(pending) < MaxPending
    /\ settings' = [settings EXCEPT !.showPinIndicator = value]
    /\ saved' = settings'
    /\ pending' = Append(pending, Call("saveSettings", "", FALSE, 0))
    /\ last' = [Step("showPinIndicator") EXCEPT !.bool = value, !.writes = 1]
    /\ UNCHANGED <<pinned, treeVars>>

\* The host resolves one saveData() and the caller that awaited it goes on:
\* every caller above continues with refreshExplorer().
Settled(i) ==
    /\ i \in DOMAIN pending
    /\ pending' = [j \in 1..(Len(pending) - 1) |->
                      IF j < i THEN pending[j] ELSE pending[j + 1]]
    /\ PatcherEffect(patchAndRefreshRun("ok"),
                     [Step("settled") EXCEPT !.call = pending[i].op,
                         !.path = pending[i].path, !.bool = pending[i].bool,
                         !.count = pending[i].count])
    /\ UNCHANGED <<pinned, settings, saved>>

(***************************************************************************)
(* Specifications.                                                         *)
(***************************************************************************)

\* The explorer before the plugin touches it, holding the items of `view`.
InitTree(view) ==
    /\ pending = <<>>
    /\ inView = view
    /\ children = [f \in FolderItems |->
                      IF f \in view
                      THEN SelectSeq(InitialChildren(f),
                                     LAMBDA c : c \in view \cup {Ghost})
                      ELSE <<>>]
    /\ itemSort = [f \in FolderItems |-> 0]
    /\ origSortFns = [f \in FolderItems |-> NoFn]
    /\ indicators = [p \in Paths |-> 0]
    /\ shown = {}
    /\ sortRequested = FALSE
    /\ patched = FALSE

Init ==
    /\ \E data \in StoredData :
          /\ settings = loadSettings(data)
          /\ saved = loadSettings(data)
          /\ pinned = PinManagerNew(loadSettings(data))
    /\ InitTree(Items)
    /\ last = Step("init")

StoreOps ==
    \/ \E path \in Paths : pin(path)
    \/ \E path \in Paths : unpin(path)
    \/ \E path \in Paths : toggle(path)
    \/ \E oldPath \in Paths, newPath \in Paths : handleRename(oldPath, newPath)
    \/ \E path \in Paths : handleDelete(path)
    \/ clearAll
    \/ \E json \in ImportTexts \cup {exportJSON(pinned)} : importJSON(json)

\* The pin store used by awaiting every call before the next is issued.
NextStore ==
    \/ pending = <<>> /\ StoreOps
    \/ \E i \in 1..MaxPending : Resolve(i)

SpecStore == Init /\ [][NextStore]_vars

\* pin, unpin and toggle issued while earlier calls still await saveData().
NextAsync ==
    \/ \E path \in Paths : pin(path)
    \/ \E path \in Paths : unpin(path)
    \/ \E path \in Paths : toggle(path)
    \/ \E i \in 1..MaxPending : Resolve(i)

SpecAsync == Init /\ [][NextAsync]_vars

\* The explorer: pins toggled one call at a time, folders patched and sorted
\* by a host whose children are the arrays the type declarations promise.
NextSort ==
    \/ pending = <<>> /\ \E path \in Paths : toggle(path)
    \/ \E i \in 1..MaxPending : Resolve(i)
    \/ patchFolderSorts
    \/ \E f \in FolderItems : HostSort(f, "none")

SpecSort == Init /\ [][NextSort]_vars

\* The same with structural drift: the partition step may throw.
NextDrift ==
    \/ pending = <<>> /\ \E path \in Paths : toggle(path)
    \/ \E i \in 1..MaxPending : Resolve(i)
    \/ patchFolderSorts
    \/ \E f \in FolderItems, fault \in Faults : HostSort(f, fault)

SpecDrift == Init /\ [][NextDrift]_vars

\* Data the plugin stored itself while every pinned path was a file's.
StoredFileData ==
    {data \in StoredData : Range(data.pinnedPaths) \subseteq Files}

InitPlugin ==
    /\ \E data \in StoredFileData :
          /\ settings = loadSettings(data)
          /\ saved = loadSettings(data)
          /\ pinned = PinManagerNew(loadSettings(data))
    /\ InitTree(Items)
    /\ last = Step("init")

\* What is pasted into the import field.
ImportField == ImportTexts \cup {exportJSON(pinned), <<>>, <<Ws(" ")>>}

PluginOps ==
    \/ \E file \in Paths : FileMenuClick(file)
    \/ \E file \in Files \cup {NoFile} : CommandPin(file)
    \/ \E file \in Files \cup {NoFile} : CommandUnpin(file)
    \/ \E file \in Files \cup {NoFile} : CommandToggle(file)
    \/ \E oldPath \in Files :
          \E newPath \in Files \ {oldPath} : OnRename(oldPath, newPath)
    \/ \E path \in Paths : OnDelete(path)
    \/ ClearAllClick
    \/ \E raw \in ImportField : ImportClick(raw)

\* The plugin as its user and the vault drive it, one call at a time, with
\* the explorer patched on layout changes and sorted by the host.
NextPlugin ==
    \/ pending = <<>> /\ PluginOps
    \/ \E i \in 1..MaxPending : Settled(i)
    \/ patchAndRefresh("ok")
    \/ \E f \in FolderItems : HostSort(f, "none")

SpecPlugin == InitPlugin /\ [][NextPlugin]_vars

InitLate ==
    /\ \E data \in StoredData :
          /\ settings = loadSettings(data)
          /\ saved = loadSettings(data)
          /\ pinned = PinManagerNew(loadSettings(data))
    /\ InitTree(BaseItems)
    /\ last = Step("init")

\* The explorer of a vault that gains a folder while the plugin runs with
\* the pins it loaded: the patcher runs when the layout is ready and on
\* every layout change.
NextLate ==
    \/ patchAndRefresh("ok")
    \/ HostAddItems
    \/ \E f \in FolderItems : HostSort(f, "none")

SpecLate == InitLate /\ [][NextLate]_vars

\* Rename and delete notifications delivered while the persistence of
\* earlier ones is still pending.
NextEvents ==
    \/ \E oldPath \in Paths, newPath \in Paths : handleRename(oldPath, newPath)
    \/ \E path \in Paths : handleDelete(path)
    \/ \E i \in 1..MaxPending : Resolve(i)

SpecEvents == Init /\ [][NextEvents]_vars

\* Indicator passes between pin toggles and changes of the indicator
\* setting, one call at a time, with the host sorting one folder in between.
NextMarks ==
    \/ pending = <<>> /\ \E path \in Paths : toggle(path)
    \/ pending = <<>> /\ \E value \in BOOLEAN : ShowIndicatorChange(value)
    \/ \E i \in 1..MaxPending : Resolve(i)
    \/ patchAndRefresh("ok")
    \/ refresh("ok")
    \/ HostSort("sub", "none")

SpecMarks == Init /\ [][NextMarks]_vars

\* The patcher through its life on a host of the declared shape: passes on
\* layout changes and refreshes, unpatch on unload (and passes again when the
\* plugin is loaded anew), and the host sorting in between.
NextPatch ==
    \/ patchAndRefresh("ok")
    \/ refresh("ok")
    \/ unpatch("ok")
    \/ \E f \in FolderItems : HostSort(f, "none")

SpecPatch == Init /\ [][NextPatch]_vars

\* The patcher on a host of any shape: every public method may find any of
\* the structures it probes absent or not callable.
NextProbe ==
    \/ \E shape \in Shapes : patchAndRefresh(shape)
    \/ \E shape \in Shapes : refresh(shape)
    \/ \E shape \in Shapes : unpatch(shape)

SpecProbe == Init /\ [][NextProbe]_vars

(***************************************************************************)
(* The wrapped sort: claims C1 to C3.                                      *)
(***************************************************************************)

\* A child whose file path is a member of the pinned set.
InPinnedSet(child) == child # Ghost /\ child \in Range(pinned)

Position(seq, x) ==
    IF \E i \in 1..Len(seq) : seq[i] = x
    THEN CHOOSE i \in 1..Len(seq) : seq[i] = x
    ELSE 0

Occurrences(seq, x) == Cardinality({i \in 1..Len(seq) : seq[i] = x})

WrappedSortReturned == last.op = "sort" /\ last.wrapped

\* C1: when a patched folder item's sort() returns, every child whose file
\* path is in the pinned set precedes every child whose path is not.
PinnedChildrenFirst ==
    WrappedSortReturned =>
        LET ch == children[last.folder]
        IN  \A i, j \in 1..Len(ch) :
                (InPinnedSet(ch[i]) /\ ~InPinnedSet(ch[j])) => i < j

\* The native sort left an unpinned child first and the wrapped sort
\* moved two pinned children ahead of it.
PinnedChildrenFirstWitness ==
    /\ WrappedSortReturned
    /\ last.folder = "/"
    /\ ~InPinnedSet(last.native[1])
    /\ InPinnedSet(last.native[2])
    /\ InPinnedSet(last.native[3])
    /\ children[last.folder] # last.native

\* C2: two children that are both pinned, or both unpinned, stand after the
\* wrapped sort in the order the native sort left them in.
StablePartition ==
    WrappedSortReturned =>
        LET ch == children[last.folder]
        IN  \A x, y \in FolderChildren(last.folder) :
                (InPinnedSet(x) <=> InPinnedSet(y)) =>
                    /\ Position(ch, x) > 0
                    /\ (Position(ch, x) < Position(ch, y)
                           <=> Position(last.native, x) < Position(last.native, y))

\* Native order sub, b.md, a.md with both files pinned: b.md stays before a.md.
StablePartitionWitness ==
    /\ WrappedSortReturned
    /\ last.native = <<"sub", "b.md", "a.md">>
    /\ children["/"] = <<"b.md", "a.md", "sub">>

\* C3: after a wrapped sort returns, normally or through its catch block,
\* the children are a permutation of what the native sort produced.
SortKeepsChildren ==
    WrappedSortReturned =>
        /\ Len(children[last.folder]) = Len(last.native)
        /\ \A x \in FolderChildren(last.folder) :
              Occurrences(children[last.folder], x) = Occurrences(last.native, x)

\* The push threw after the children were truncated, and the catch block
\* brought them back.
SortKeepsChildrenWitness ==
    /\ WrappedSortReturned
    /\ last.fault = "push"
    /\ last.threw
    /\ Len(children[last.folder]) = 3

(***************************************************************************)
(* The pin store: claims C4 to C10.                                        *)
(***************************************************************************)

\* C4: between operations the elements of settings.pinnedPaths are exactly
\* the members of the pinned set; after a call that changed the set,
\* settings.pinnedPaths holds each member once, and the call issued one
\* saveData() that carried the set as it is.
PinnedPathsInSync ==
    /\ Range(settings.pinnedPaths) = Range(pinned)
    /\ Range(last.pre) # Range(pinned) =>
          /\ NoDuplicates(settings.pinnedPaths)
          /\ last.writes = 1
    /\ last.writes = 1 => saved.pinnedPaths = pinned

\* A call changed the set the data file had stored with a repeated path.
PinnedPathsInSyncWitness ==
    /\ last.writes = 1
    /\ Range(last.pre) # Range(pinned)
    /\ ~NoDuplicates(last.prePaths)
    /\ Len(pinned) >= 2

\* C5: handleRename(oldPath, newPath) with oldPath pinned and newPath another
\* path leaves oldPath unpinned and newPath pinned, every other path as it
\* was, and issues one saveData(), which carries newPath.
RenameTransfersPin ==
    (last.op = "handleRename" /\ SetHas(last.pre, last.path) /\ last.path2 # last.path) =>
        /\ ~isPinned(last.path)
        /\ isPinned(last.path2)
        /\ \A q \in Paths \ {last.path, last.path2} : SetHas(last.pre, q) <=> isPinned(q)
        /\ last.writes = 1
        /\ SetHas(saved.pinnedPaths, last.path2)
        /\ ~SetHas(saved.pinnedPaths, last.path)

\* A pin moved to a path that was not pinned, another pin standing by.
RenameTransfersPinWitness ==
    /\ last.op = "handleRename"
    /\ SetHas(last.pre, last.path)
    /\ last.path2 # last.path
    /\ ~SetHas(last.pre, last.path2)
    /\ Len(pinned) >= 2
    /\ isPinned(last.path2)

\* C6: pin of a pinned path, unpin or handleDelete of an absent path and
\* handleRename of an absent old path change neither the pinned set nor
\* settings.pinnedPaths and issue no saveData().
RedundantMutationIsNoOp ==
    ( \/ last.op = "pin" /\ SetHas(last.pre, last.path)
      \/ last.op \in {"unpin", "handleDelete", "handleRename"}
            /\ ~SetHas(last.pre, last.path) ) =>
        /\ pinned = last.pre
        /\ settings.pinnedPaths = last.prePaths
        /\ saved.pinnedPaths = last.prePaths
        /\ last.writes = 0

\* handleDelete of a path that is not pinned, while others are.
RedundantMutationIsNoOpWitness ==
    /\ last.op = "handleDelete"
    /\ ~SetHas(last.pre, last.path)
    /\ Len(pinned) >= 1
    /\ last.writes = 0

\* toggle(path) flips the membership of path and of no other path.
ToggleFlips ==
    last.op = "toggle" =>
        /\ isPinned(last.path) # SetHas(last.pre, last.path)
        /\ \A q \in Paths \ {last.path} : SetHas(last.pre, q) <=> isPinned(q)

\* C7 as stated: toggle flips path only, and the boolean it resolves with
\* is isPinned(path) at the moment it resolves, whatever was issued meanwhile.
ToggleResolvesWithMembership ==
    /\ ToggleFlips
    /\ (last.op = "resolve" /\ last.call = "toggle") =>
          last.bool = isPinned(last.path)

\* C7 amended: toggle flips path only; the boolean it resolves with is the
\* membership its own flip gave path, and it is isPinned(path) at the moment
\* it resolves when no call changed the membership of path meanwhile.
ToggleResolvesWithOwnFlip ==
    /\ ToggleFlips
    /\ last.op = "toggle" => last.bool = isPinned(last.path)
    /\ \A i \in DOMAIN pending :
          (pending[i].op = "toggle" /\ pending[i].clean) =>
              pending[i].bool = isPinned(pending[i].path)
    /\ (last.op = "resolve" /\ last.call = "toggle" /\ last.clean) =>
          last.bool = isPinned(last.path)

\* A toggle resolves undisturbed while a later call is still pending.
ToggleResolvesWithOwnFlipWitness ==
    /\ last.op = "resolve"
    /\ last.call = "toggle"
    /\ last.clean
    /\ last.bool
    /\ Len(pending) >= 1

\* The strings a JSON text lists, when it is an array.
ListedStrings(json) ==
    LET v == JSONParse(json).val
    IN  {v.items[i].s : i \in {j \in 1..Len(v.items) : v.items[j].k = "string"}}

IsArrayText(json) == JSONParse(json).ok /\ JSONParse(json).val.k = "array"

IsStringArrayText(json) ==
    /\ IsArrayText(json)
    /\ \A i \in 1..Len(JSONParse(json).val.items) :
          JSONParse(json).val.items[i].k = "string"

\* C8: importJSON of a JSON array of strings adds the listed paths that were
\* absent and removes none, counts each of them once, issues one saveData();
\* the store's own exportJSON text imports 0 paths and changes nothing.
ImportMerges ==
    (last.op = "importJSON" /\ IsStringArrayText(last.raw)) =>
        /\ ~last.threw
        /\ Range(pinned) = Range(last.pre) \cup ListedStrings(last.raw)
        /\ last.count = Cardinality(ListedStrings(last.raw) \ Range(last.pre))
        /\ last.writes = 1
        /\ saved.pinnedPaths = pinned
        /\ last.raw = exportJSON(last.pre) => (last.count = 0 /\ pinned = last.pre)

\* ["a.md", "a.md", "b.md"] imported into a store that holds another path.
ImportMergesWitness ==
    /\ last.op = "importJSON"
    /\ last.raw = TypedArray(<<Str("a.md"), Str("a.md"), Str("b.md")>>)
    /\ last.count = 2
    /\ Len(last.pre) >= 1
    /\ Len(pinned) = 3

FailedImportChangesNothing ==
    (last.op = "importJSON" /\ last.threw) =>
        /\ pinned = last.pre
        /\ settings.pinnedPaths = last.prePaths
        /\ saved.pinnedPaths = last.prePaths
        /\ last.writes = 0

\* {not an array} is rejected by a store that holds pins.
FailedImportChangesNothingWitness ==
    /\ last.op = "importJSON"
    /\ last.threw
    /\ ~JSONParse(last.raw).ok
    /\ Len(last.raw) = 7
    /\ Len(pinned) >= 1


(***************************************************************************)
(* Claims C11 to C20.                                                      *)
(***************************************************************************)

\* C11: in every state reached through the context menu, the three
\* commands, import and rename/delete notifications, every member of the
\* pinned set is the path of a file, and a wrapped sort puts no folder
\* child into the leading group of pinned children.
OnlyFilesPinned ==
    /\ Range(pinned) \subseteq Files
    /\ WrappedSortReturned =>
          \A child \in Range(PinnedChildren(children[last.folder], pinned)) :
              child \in Files


\* No child of the folder sorted last is in the pinned set.
NoChildPinned ==
    \A child \in Range(last.native) : ~IsPinnedChild(child, pinned)

\* C12: when the pinned set is empty or no child of the folder is pinned,
\* the wrapped sort leaves the children exactly as the native sort produced
\* them and never empties and refills the array.
FastPathKeepsNative ==
    (WrappedSortReturned /\ (Len(pinned) = 0 \/ NoChildPinned)) =>
        /\ children[last.folder] = last.native
        /\ ~last.rewritten

\* A folder with no pinned child is sorted while other paths are pinned.
FastPathKeepsNativeWitness ==
    /\ WrappedSortReturned
    /\ Len(pinned) > 0
    /\ NoChildPinned
    /\ Len(last.native) > 1
    /\ children[last.folder] = last.native


\* No unpinned child stands ahead of a pinned one.
PinnedAhead(seq) ==
    \A i \in DOMAIN seq : \A j \in DOMAIN seq :
        (i < j /\ IsPinnedChild(seq[j], pinned)) => IsPinnedChild(seq[i], pinned)

\* C13: once the patcher has run, no host sort of a folder item, one added
\* to the view after the latest patch pass included, ends with an unpinned
\* child ahead of a pinned one.
EveryHostSortPartitions ==
    (last.op = "sort" /\ patched) => PinnedAhead(children[last.folder])


PatcherPassed == last.op \in {"patchAndRefresh", "refresh", "unpatch"}

\* C14: patchAndRefresh, refresh and unpatch let no exception out, whatever
\* probed structure is absent or not callable; without fileItems no sort
\* function is replaced; the pinned set and the settings stay as they were.
PatcherNeverThrows ==
    PatcherPassed =>
        /\ ~last.propagated
        /\ last.shape = "noFileItems" =>
              (itemSort = last.sorts /\ indicators = last.marks)
        /\ pinned = last.pre
        /\ settings = last.preSettings

\* unpatch met a title element without querySelector while folders were
\* wrapped: the TypeError stayed inside, and so did the wrappers.
PatcherNeverThrowsWitness ==
    /\ last.op = "unpatch"
    /\ last.shape = "badTitleEl"
    /\ last.threw
    /\ ~last.propagated
    /\ \E f \in FolderItems : itemSort[f] > 0
    /\ Len(pinned) > 0


\* C15: a wrapped sort calls the original sort before anything else and
\* partitions what it left; a failure of the partition stays inside the
\* wrapper and leaves the children in the native order.
NativeSortFirst ==
    WrappedSortReturned =>
        /\ last.origCalls >= 1
        /\ ~last.propagated
        /\ children[last.folder] \in
              {last.native,
               PinnedChildren(last.native, pinned)
                   \o UnpinnedChildren(last.native, pinned)}
        /\ last.threw => children[last.folder] = last.native

\* The push of the new order failed after the children were emptied, with
\* an unpinned child natively ahead of a pinned one.
NativeSortFirstWitness ==
    /\ WrappedSortReturned
    /\ last.fault = "push"
    /\ last.threw
    /\ last.origCalls = 2
    /\ ~PinnedAhead(last.native)
    /\ children[last.folder] = last.native


\* C16: whatever passes, refreshes and unpatches have run, a folder item
\* carries at most one wrapper and the function saved for it is the host's
\* own sort, so one item.sort() runs the native sort once and partitions at
\* most once.
WrappedAtMostOnce ==
    /\ \A f \in FolderItems :
          /\ itemSort[f] \in {0, 1}
          /\ origSortFns[f] \in {NoFn, 0}
    /\ last.op = "sort" =>
          /\ last.origCalls <= 1
          /\ children[last.folder] \in
                {last.native,
                 Reorder(PinnedChildren(last.native, pinned),
                         UnpinnedChildren(last.native, pinned))}

\* A pass over folder items that were wrapped already left them with their
\* one wrapper.
WrappedAtMostOnceWitness ==
    /\ last.op = "patchAndRefresh"
    /\ \A f \in FolderItems : last.sorts[f] = 1 /\ itemSort[f] = 1
    /\ \A f \in FolderItems : origSortFns[f] = 0


\* C17: unpatch gives every wrapped folder item its own sort back and takes
\* every indicator away, and does so without failing also when nothing was
\* ever patched; a host sort after it yields the native order untouched.
UnpatchRestores ==
    /\ last.op = "unpatch" =>
          /\ \A f \in FolderItems : itemSort[f] = 0 /\ origSortFns[f] = NoFn
          /\ \A p \in Paths : indicators[p] = 0
          /\ ~patched
          /\ ~last.threw /\ ~last.propagated
          /\ (/\ \A f \in FolderItems : last.sorts[f] = 0
              /\ \A p \in Paths : last.marks[p] = 0) =>
                (itemSort = last.sorts /\ indicators = last.marks)
    /\ (last.op = "sort" /\ ~patched) =>
          /\ ~last.wrapped
          /\ ~last.rewritten
          /\ children[last.folder] = last.native

\* unpatch found both folders wrapped and a marker on a pinned item.
UnpatchRestoresWitness ==
    /\ last.op = "unpatch"
    /\ \A f \in FolderItems : last.sorts[f] = 1 /\ itemSort[f] = 0
    /\ \E p \in Paths : last.marks[p] = 1 /\ indicators[p] = 0


\* C18: after a wrapped sort that changed the children's order, the child
\* elements in the folder's container stand in the new order, pinned first.
ElementsFollowChildren ==
    (WrappedSortReturned /\ children[last.folder] # last.native) =>
        last.elements = children[last.folder]


\* A rename applied to a set of pinned paths.
AfterRename(S, oldPath, newPath) ==
    IF oldPath \in S THEN (S \ {oldPath}) \cup {newPath} ELSE S

\* A delete applied to a set of pinned paths.
AfterDelete(S, path) == S \ {path}

\* C19: every rename or delete notification, delivered while earlier
\* handlers still await their write or not, takes the pinned set from what
\* the notification before it left to what the handler run alone would
\* give; a completing write changes nothing, and the write issued last
\* carries the set.
NotificationsApplyInOrder ==
    /\ last.op = "handleRename" =>
          Range(pinned) = AfterRename(Range(last.pre), last.path, last.path2)
    /\ last.op = "handleDelete" =>
          Range(pinned) = AfterDelete(Range(last.pre), last.path)
    /\ last.op = "resolve" => pinned = last.pre
    /\ last.writes = 1 => saved.pinnedPaths = pinned
    /\ Range(saved.pinnedPaths) = Range(pinned)

\* A delete arrived and took its path out while the write of an earlier
\* rename was still pending.
NotificationsApplyInOrderWitness ==
    /\ last.op = "handleDelete"
    /\ Len(pending) = 2
    /\ pending[1].op = "handleRename"
    /\ last.path \in Range(last.pre)
    /\ last.path \notin Range(pinned)
    /\ saved.pinnedPaths = pinned


\* C20: every item carries one marker when the last indicator pass found
\* indicators enabled and its path pinned, and none otherwise, however many
\* passes ran; a pass leaves every folder's children as they were.
MarkersMatchLastPass ==
    /\ \A p \in Paths : indicators[p] = IF p \in shown THEN 1 ELSE 0
    /\ last.op \in {"patchAndRefresh", "refresh"} =>
          /\ shown = {p \in Paths : settings.showPinIndicator /\ isPinned(p)}
          /\ children = last.kids

\* A pass found one marked item still pinned and another one unpinned
\* since: the first keeps its one marker, the second loses it.
MarkersMatchLastPassWitness ==
    /\ last.op = "refresh"
    /\ \E p \in Paths : last.marks[p] = 1 /\ indicators[p] = 1
    /\ \E q \in Paths : last.marks[q] = 1 /\ indicators[q] = 0
    /\ settings.showPinIndicator


(***************************************************************************)
(* Claim C21.                                                              *)
(***************************************************************************)

\* C21: in patchAndRefresh and refresh the indicator pass is not run in the
\* step that requests the re-sort: when the method returns with the sort
\* requested, the markers are still as the method found them, so that the
\* host's queued sort can run before they are refreshed.
IndicatorPassDeferred ==
    (last.op \in {"patchAndRefresh", "refresh"} /\ sortRequested) =>
        indicators = last.marks

============================================================================
